---- MODULE Spec2Model ----
(***************************************************************************)
(* Authentication and credential lifecycle of the gas-plumbers backend:    *)
(* the user model's credential hooks and methods (models/UserModel.js)     *)
(* and the auth controller (controllers/authController.js).                *)
(*                                                                         *)
(* Time is Date.now() in milliseconds.  A bearer token carries its issue   *)
(* time in whole seconds (iat); passwordChangedAt and                      *)
(* passwordResetExpires are stored in milliseconds.                        *)
(***************************************************************************)
EXTENDS Integers, Sequences, FiniteSets, TLC

VARIABLES
    now,        \* Date.now(), milliseconds
    users,      \* the User collection: a sequence of documents, _id = index
    held,       \* bearer tokens issued by the server that clients still hold
    issued,     \* number of raw reset tokens crypto.randomBytes has produced
    last,       \* the request served last and the response it got
    procs,      \* requests in flight (concurrent handlers)
    log         \* what the step taken last wrote to the console

vars == <<now, users, held, issued, last, procs, log>>

----------------------------------------------------------------------------
(* Bounds of the model *)

StartNow == 1500
TickMs == 500
MaxTicks == 2
MaxIssued == 2
MaxHeld == 1
MaxProcs == 2

(* Program constants *)

MsPerSecond == 1000
PasswordChangedSkewMs == 1000
ResetWindowMs == 10 * 60 * 1000
MinPasswordLength == 8
BcryptMaxBytes == 72
JwtExpiresIn == 1200

(* Request inputs *)

Emails == {"a@b.com", "c@d.com"}
SignupEmails == {"a@b.com"}
\* two passwords longer than bcrypt's limit that differ after it
LongPrefix == "longpasslongpasslongpasslongpasslongpasslongpasslongpasslongpasslongpass"
LongPassword == LongPrefix \o "1"
LongPasswordTwin == LongPrefix \o "2"
Plain == {"password1", LongPassword, "short"}
Missing == ""

----------------------------------------------------------------------------
(* Values *)

NoDate == -1
NoHash == <<>>
NoToken == [id |-> 0, iat |-> 0, exp |-> 0, sig |-> "none"]

\* crypto.createHash("sha256").update(raw).digest("hex")
Sha256Hex(raw) == <<"sha256", raw>>

\* bcryptjs reads the first 72 bytes of the password and no more
BcryptKey(plain) ==
    IF Len(plain) > BcryptMaxBytes THEN SubSeq(plain, 1, BcryptMaxBytes)
    ELSE plain

\* bcrypt.hash(plain, 12); the salt is carried inside the digest and is
\* not modelled apart from it
BcryptHash(plain) == <<"bcrypt12", BcryptKey(plain)>>

\* mutant: every candidate verifies
correctPassword_Always(candidatePassword, userPassword) == TRUE

\* bcrypt.compare(candidate, digest)
correctPassword(candidatePassword, userPassword) ==
    BcryptHash(candidatePassword) = userPassword

\* mutant: the division by 1000 forgotten
ParseIntSeconds_Milliseconds(ms) == ms

\* parseInt(ms / 1000, 10): the quotient truncated towards zero
ParseIntSeconds(ms) ==
    IF ms >= 0 THEN ms \div MsPerSecond ELSE -((-ms) \div MsPerSecond)

\* jsonwebtoken's iat and clock: Math.floor(Date.now() / 1000)
ClockSeconds(ms) == ms \div MsPerSecond

\* signToken: jwt.sign({id}, secret, {expiresIn})
signToken(id, t) ==
    [id |-> id, iat |-> ClockSeconds(t), exp |-> ClockSeconds(t) + JwtExpiresIn,
     sig |-> "valid"]

\* promisify(jwt.verify)(token, secret): signature and expiry
jwtVerify(token, t) ==
    /\ token.sig = "valid"
    /\ ClockSeconds(t) < token.exp

\* mutant: <= in place of <
changedPasswordAfter_OrEqual(user, JWTTimestamp) ==
    IF user.passwordChangedAt # NoDate
    THEN JWTTimestamp <= user.passwordChangedAt \div MsPerSecond
    ELSE FALSE

\* userSchema.methods.changedPasswordAfter
changedPasswordAfter(user, JWTTimestamp) ==
    IF user.passwordChangedAt # NoDate
    THEN JWTTimestamp < ParseIntSeconds(user.passwordChangedAt)
    ELSE FALSE

\* mutant: the second is added
PasswordChangedAtOnSave_Ahead(t) == t + PasswordChangedSkewMs

\* the second pre("save") hook, for a document that is not new
PasswordChangedAtOnSave(t) == t - PasswordChangedSkewMs

\* mutant: the first hook does not hash
SavePassword_Plaintext(user, password, t) ==
    [user EXCEPT !.password = <<"plaintext", password>>,
                 !.passwordChangedAt = t - PasswordChangedSkewMs]

\* the two pre("save") hooks on a document whose password was set to a
\* plaintext: the digest replaces it and passwordChangedAt is stamped
SavePassword(user, password, t) ==
    [user EXCEPT !.password = BcryptHash(password),
                 !.passwordChangedAt = PasswordChangedAtOnSave(t)]

\* mutant: the token expires as it is made
ResetExpiresAt_Now(t) == t

\* userSchema.methods.createPasswordResetToken: the two fields it sets
ResetExpiresAt(t) == t + ResetWindowMs

\* mutant: a pending token is kept
createPasswordResetToken_KeepsPending(user, resetToken, t) ==
    IF user.passwordResetToken # NoHash THEN user
    ELSE [user EXCEPT !.passwordResetToken = Sha256Hex(resetToken),
                      !.passwordResetExpires = t + ResetWindowMs]

\* mutant: passwordChangedAt is stamped as well
createPasswordResetToken_StampsChange(user, resetToken, t) ==
    [user EXCEPT !.passwordResetToken = Sha256Hex(resetToken),
                 !.passwordResetExpires = t + ResetWindowMs,
                 !.passwordChangedAt = t + ResetWindowMs]

createPasswordResetToken(user, resetToken, t) ==
    [user EXCEPT !.passwordResetToken = Sha256Hex(resetToken),
                 !.passwordResetExpires = ResetExpiresAt(t)]

\* mutants: nothing is cleared; only the expiry is cleared
ClearResetFields_Nothing(user) == user
ClearResetFields_ExpiryOnly(user) ==
    [user EXCEPT !.passwordResetExpires = NoDate]

\* user.passwordResetToken = undefined; user.passwordResetExpires = undefined
ClearResetFields(user) ==
    [user EXCEPT !.passwordResetToken = NoHash,
                 !.passwordResetExpires = NoDate]

\* mutant: save() without validation
PasswordValid_Unchecked(password, passwordConfirm) == TRUE

\* the schema's validators that a save() of a changed password runs
PasswordValid(password, passwordConfirm) ==
    /\ password # Missing
    /\ Len(password) >= MinPasswordLength
    /\ passwordConfirm = password

ValidationMessage(password, passwordConfirm) ==
    IF password = Missing THEN "Please provide a password"
    ELSE IF Len(password) < MinPasswordLength
         THEN "Password must be at least 8 characters"
    ELSE "Passwords are not the same"

\* the values the ValidatorErrors of a failed save() carry (their value
\* property): the password that is too short, the passwordConfirm that is
\* too short or differs; a missing field has no value
RejectedValues(password, passwordConfirm) ==
    IF password = Missing THEN {}
    ELSE (IF Len(password) < MinPasswordLength THEN {password} ELSE {})
         \cup (IF \/ Len(passwordConfirm) < MinPasswordLength
                   \/ passwordConfirm # password
                THEN {passwordConfirm} \ {Missing} ELSE {})

\* console.log / console.error with a label and one argument
Line(label, arg) == <<label, arg>>
NoLines == <<>>

----------------------------------------------------------------------------
(* The store *)

UserIds == DOMAIN users

\* User.findOne({ email })
FindByEmail(email) == {u \in UserIds : users[u].email = email}

\* mutant: the collection has no unique index
UniqueEmail_NoIndex(email) == TRUE

\* the unique index on email: an insert with this email is admitted
UniqueEmail(email) == FindByEmail(email) = {}

\* mutant: the expiry is not looked at
FindByResetToken_AnyTime(hashedToken, t) ==
    {u \in UserIds : users[u].passwordResetToken = hashedToken}

\* mutant: $gte in place of $gt
FindByResetToken_AtExpiry(hashedToken, t) ==
    {u \in UserIds : /\ users[u].passwordResetToken = hashedToken
                     /\ users[u].passwordResetExpires # NoDate
                     /\ users[u].passwordResetExpires >= t}

\* User.findOne({ passwordResetToken: hashedToken,
\*                passwordResetExpires: { $gt: Date.now() } })
FindByResetToken(hashedToken, t) ==
    {u \in UserIds : /\ users[u].passwordResetToken = hashedToken
                     /\ users[u].passwordResetExpires # NoDate
                     /\ users[u].passwordResetExpires > t}

\* User.create({ ...req.body }): every schema field the body names is taken
\* from it; the first pre("save") hook hashes the password, the second
\* leaves passwordChangedAt alone because the document is new
NewUser(email, username, password, extra) ==
    [k \in {"email", "username", "role", "password", "passwordChangedAt",
            "passwordResetToken", "passwordResetExpires"} |->
        IF k \in DOMAIN extra THEN extra[k]
        ELSE CASE k = "email" -> email
               [] k = "username" -> username
               [] k = "role" -> "customer"
               [] k = "password" -> BcryptHash(password)
               [] k = "passwordChangedAt" -> NoDate
               [] k = "passwordResetToken" -> NoHash
               [] k = "passwordResetExpires" -> NoDate]

----------------------------------------------------------------------------
(* Responses *)

Served(op, status, message, token, user, raw) ==
    [op |-> op, status |-> status, message |-> message, token |-> token,
     user |-> user, raw |-> raw]

\* mutant: the password stays on the document that is sent
SentUser_WithPassword(doc) == doc

\* createSendToken: user.password = undefined, then res.json({ user })
SentUser(doc) == [k \in DOMAIN doc \ {"password"} |-> doc[k]]

\* a document read without .select("+password"): the schema's select: false
DefaultSelect(user) == [k \in DOMAIN user \ {"password"} |-> user[k]]

\* the user object in the body of the response served last; the empty
\* record when the response has none
ResponseUser ==
    IF /\ last.op \in {"signup", "login", "resetPassword", "updatePassword"}
       /\ last.status \in {200, 201}
    THEN SentUser(users[last.user])
    ELSE IF last.op \in {"getMe", "updateMe"} /\ last.status = 200
    THEN DefaultSelect(users[last.user])
    ELSE <<>>

\* createSendToken: the token goes to the client, who keeps it or not
KeepOrDrop(token) ==
    {held} \cup (IF Cardinality(held \cup {token}) <= MaxHeld
                 THEN {held \cup {token}} ELSE {})
                \cup {(held \ {h}) \cup {token} : h \in held}

\* exports.protect: the 401 it answers, or status 0 when it calls next()
protect(token, t) ==
    IF token = NoToken
    THEN [status |-> 401, user |-> 0,
          message |-> "You are not logged in! Please log in to get access."]
    ELSE IF ~jwtVerify(token, t)
    THEN [status |-> 401, user |-> 0,
          message |-> "Invalid token. Please log in again!"]
    ELSE IF token.id \notin UserIds
    THEN [status |-> 401, user |-> 0,
          message |-> "The user belonging to this token no longer exists."]
    ELSE IF changedPasswordAfter(users[token.id], token.iat)
    THEN [status |-> 401, user |-> 0,
          message |-> "User recently changed password! Please log in again."]
    ELSE [status |-> 0, user |-> token.id, message |-> "next"]

\* protect's search for the token: the Authorization header when it
\* carries a bearer token, else the jwt cookie
locateToken(req) == IF req.header # NoToken THEN req.header ELSE req.cookie

\* exports.isLoggedIn: the calls it makes on res and next, in order, and
\* the user it puts in res.locals (0 for none); findOk is false when
\* User.findById throws
isLoggedIn(req, t, findOk) ==
    IF req.cookie = NoToken
    THEN [calls |-> <<"next">>, user |-> 0]
    ELSE IF ~jwtVerify(req.cookie, t)
    THEN [calls |-> <<"next">>, user |-> 0]
    ELSE IF ~findOk
    THEN [calls |-> <<"next">>, user |-> 0]
    ELSE IF req.cookie.id \notin UserIds
    THEN [calls |-> <<"next">>, user |-> 0]
    ELSE IF changedPasswordAfter(users[req.cookie.id], req.cookie.iat)
    THEN [calls |-> <<"next">>, user |-> 0]
    ELSE [calls |-> <<"next">>, user |-> req.cookie.id]

----------------------------------------------------------------------------
(* Handlers, each served from start to end (sequential requests) *)

\* exports.signupUser
signupUser(email, username, password, passwordConfirm, extra) ==
    /\ IF email = Missing
       THEN /\ last' = Served("signup", 400, "Email is required", NoToken,
                              0, 0)
            /\ UNCHANGED <<users, held>>
       ELSE IF FindByEmail(email) # {}
       THEN /\ last' = Served("signup", 400,
                              "User with this email already exists", NoToken,
                              0, 0)
            /\ UNCHANGED <<users, held>>
       ELSE IF ~PasswordValid(password, passwordConfirm)
       THEN /\ last' = Served("signup", 400,
                              ValidationMessage(password, passwordConfirm),
                              NoToken, 0, 0)
            /\ UNCHANGED <<users, held>>
       ELSE /\ users' = Append(users,
                               NewUser(email, username, password, extra))
            /\ last' = Served("signup", 201, "success",
                              signToken(Len(users) + 1, now),
                              Len(users) + 1, 0)
            /\ held' \in KeepOrDrop(signToken(Len(users) + 1, now))
    /\ log' = IF /\ email # Missing
                 /\ FindByEmail(email) = {}
                 /\ ~PasswordValid(password, passwordConfirm)
              THEN <<Line("User signup error:",
                          RejectedValues(password, passwordConfirm))>>
              ELSE NoLines
    /\ UNCHANGED <<now, issued, procs>>

\* mutant: an unknown email gets a message of its own
loginResponse_NamesUnknownEmail(email, password) ==
    IF email = Missing \/ password = Missing
    THEN [status |-> 400, message |-> "Please provide email and password",
          token |-> NoToken, user |-> 0]
    ELSE IF FindByEmail(email) = {}
    THEN [status |-> 401, message |-> "There is no user with that email",
          token |-> NoToken, user |-> 0]
    ELSE IF \E u \in FindByEmail(email) :
                ~correctPassword(password, users[u].password)
    THEN [status |-> 401, message |-> "Incorrect email or password",
          token |-> NoToken, user |-> 0]
    ELSE LET u == CHOOSE u \in FindByEmail(email) : TRUE IN
         [status |-> 200, message |-> "success", token |-> signToken(u, now),
          user |-> u]

\* exports.login: the response to a request
loginResponse(email, password) ==
    IF email = Missing \/ password = Missing
    THEN [status |-> 400, message |-> "Please provide email and password",
          token |-> NoToken, user |-> 0]
    ELSE IF \/ FindByEmail(email) = {}
            \/ \E u \in FindByEmail(email) :
                   ~correctPassword(password, users[u].password)
    THEN [status |-> 401, message |-> "Incorrect email or password",
          token |-> NoToken, user |-> 0]
    ELSE LET u == CHOOSE u \in FindByEmail(email) : TRUE IN
         [status |-> 200, message |-> "success", token |-> signToken(u, now),
          user |-> u]

\* exports.login
login(email, password) ==
    LET res == loginResponse(email, password) IN
    /\ last' = Served("login", res.status, res.message, res.token,
                      res.user, 0)
    /\ IF res.status = 200
       THEN held' \in KeepOrDrop(res.token)
       ELSE UNCHANGED held
    /\ log' = NoLines
    /\ UNCHANGED <<now, users, issued, procs>>

\* exports.forgotPassword; sendEmail resolves (emailOk) or rejects
forgotPassword(email, emailOk) ==
    /\ IF FindByEmail(email) = {}
       THEN /\ last' = Served("forgotPassword", 404,
                              "There is no user with email address.",
                              NoToken, 0, 0)
            /\ UNCHANGED <<users, issued>>
       ELSE \E u \in FindByEmail(email) :
            /\ issued < MaxIssued
            /\ issued' = issued + 1
            /\ IF emailOk
               THEN /\ users' = [users EXCEPT ![u] =
                          createPasswordResetToken(users[u], issued + 1, now)]
                    /\ last' = Served("forgotPassword", 200,
                                      "Token sent to email!", NoToken, u,
                                      issued + 1)
               ELSE /\ users' = [users EXCEPT ![u] =
                          ClearResetFields(
                            createPasswordResetToken(users[u], issued + 1,
                                                     now))]
                    /\ last' = Served("forgotPassword", 500,
                          "There was an error sending the email. Try again later!",
                          NoToken, u, issued + 1)
    /\ log' = IF FindByEmail(email) # {} /\ ~emailOk
              THEN <<Line("Email sending error:", {})>>
              ELSE NoLines
    /\ UNCHANGED <<now, held, procs>>

\* exports.resetPassword
resetPassword(raw, password, passwordConfirm) ==
    /\ IF FindByResetToken(Sha256Hex(raw), now) = {}
       THEN /\ last' = Served("resetPassword", 400,
                              "Token is invalid or has expired", NoToken,
                              0, raw)
            /\ UNCHANGED <<users, held>>
       ELSE \E u \in FindByResetToken(Sha256Hex(raw), now) :
            IF ~PasswordValid(password, passwordConfirm)
            THEN /\ last' = Served("resetPassword", 400,
                                   ValidationMessage(password, passwordConfirm),
                                   NoToken, u, raw)
                 /\ UNCHANGED <<users, held>>
            ELSE /\ users' = [users EXCEPT ![u] =
                       SavePassword(ClearResetFields(users[u]), password, now)]
                 /\ last' = Served("resetPassword", 200, "success",
                                   signToken(u, now), u, raw)
                 /\ held' \in KeepOrDrop(signToken(u, now))
    /\ log' = <<Line("Attempting to reset password with token:", raw),
                Line("Hashed token:", Sha256Hex(raw))>>
              \o (IF /\ FindByResetToken(Sha256Hex(raw), now) # {}
                      /\ ~PasswordValid(password, passwordConfirm)
                   THEN <<Line("Reset password error:",
                               RejectedValues(password, passwordConfirm))>>
                   ELSE NoLines)
    /\ UNCHANGED <<now, issued, procs>>

\* router.use(protect), then exports.updatePassword
updatePassword(token, passwordCurrent, password, passwordConfirm) ==
    LET gate == protect(token, now) IN
    /\ IF gate.status # 0
       THEN /\ last' = Served("updatePassword", gate.status, gate.message,
                              NoToken, 0, 0)
            /\ UNCHANGED <<users, held>>
       ELSE LET u == gate.user IN
            IF passwordCurrent = Missing
            THEN /\ last' = Served("updatePassword", 400,
                                   "Illegal arguments: undefined, string",
                                   NoToken, u, 0)
                 /\ UNCHANGED <<users, held>>
            ELSE IF ~correctPassword(passwordCurrent, users[u].password)
            THEN /\ last' = Served("updatePassword", 401,
                                   "Your current password is wrong.",
                                   NoToken, u, 0)
                 /\ UNCHANGED <<users, held>>
            ELSE IF ~PasswordValid(password, passwordConfirm)
            THEN /\ last' = Served("updatePassword", 400,
                                   ValidationMessage(password, passwordConfirm),
                                   NoToken, u, 0)
                 /\ UNCHANGED <<users, held>>
            ELSE /\ users' = [users EXCEPT ![u] =
                       SavePassword(users[u], password, now)]
                 /\ last' = Served("updatePassword", 200, "success",
                                   signToken(u, now), u, 0)
                 /\ held' \in KeepOrDrop(signToken(u, now))
    /\ log' = NoLines
    /\ UNCHANGED <<now, issued, procs>>

\* router.use(protect), then exports.getMe
getMe(token) ==
    LET gate == protect(token, now) IN
    /\ IF gate.status # 0
       THEN last' = Served("getMe", gate.status, gate.message, NoToken, 0, 0)
       ELSE last' = Served("getMe", 200, "success", NoToken, gate.user, 0)
    /\ log' = NoLines
    /\ UNCHANGED <<now, users, held, issued, procs>>

\* req.body[key] is truthy: present and not the empty string
Truthy(body, key) == key \in DOMAIN body /\ body[key] # Missing

\* mutant: the reset fields are let through
filteredBody_ResetFields(body) ==
    [k \in DOMAIN body \cap {"username", "phoneNumber", "location",
                             "passwordResetToken", "passwordResetExpires"}
        |-> body[k]]

\* updateMe's allowedFields and the filteredBody it builds from req.body
allowedFields == {"username", "phoneNumber", "location"}
filteredBody(body) == [k \in DOMAIN body \cap allowedFields |-> body[k]]

\* User.findByIdAndUpdate(id, update): $set of the update's fields
findByIdAndUpdate(user, update) ==
    [k \in DOMAIN user |-> IF k \in DOMAIN update THEN update[k] ELSE user[k]]

\* router.use(protect), then exports.updateMe
updateMe(token, body) ==
    LET gate == protect(token, now) IN
    /\ IF gate.status # 0
       THEN /\ last' = Served("updateMe", gate.status, gate.message,
                              NoToken, 0, 0)
            /\ UNCHANGED users
       ELSE LET u == gate.user IN
            IF Truthy(body, "password") \/ Truthy(body, "passwordConfirm")
            THEN /\ last' = Served("updateMe", 400,
                       "This route is not for password updates. Please use /updateMyPassword.",
                       NoToken, u, 0)
                 /\ UNCHANGED users
            ELSE /\ users' = [users EXCEPT
                       ![u] = findByIdAndUpdate(users[u], filteredBody(body))]
                 /\ last' = Served("updateMe", 200,
                                   "Profile updated successfully", NoToken, u,
                                   0)
    /\ log' = NoLines
    /\ UNCHANGED <<now, held, issued, procs>>

\* the clock advances
TicksUsed(t) ==
    (t - StartNow) \div ResetWindowMs
        + ((t - StartNow) % ResetWindowMs) \div TickMs

Tick ==
    /\ \E d \in {TickMs, ResetWindowMs} :
          /\ TicksUsed(now + d) <= MaxTicks
          /\ now' = now + d
    /\ last' = Served("tick", 0, "", NoToken, 0, 0)
    /\ log' = NoLines
    /\ UNCHANGED <<users, held, issued, procs>>

----------------------------------------------------------------------------
(* Requests a client can send *)

Forged == {[h EXCEPT !.sig = "forged"] : h \in held}
\* a token the server signed for a user whose document is gone
Orphaned == {[h EXCEPT !.id = Len(users) + 1] : h \in held}
Presented == held \cup Forged \cup Orphaned \cup {NoToken}
\* what a request carries in its Authorization header and its jwt cookie
Requests == [header : Presented, cookie : Presented]
\* raw reset tokens a client can submit: one of its own making (ClientRaw)
\* and the ones crypto.randomBytes produces, which never repeat
ClientRaw == 0
RawTokens == {ClientRaw} \cup (1 .. MaxIssued)
\* fields of the signup body beyond email, username and the passwords
SignupExtras == {<<>>, [passwordResetToken |-> Sha256Hex(ClientRaw)]}
PlainInputs == Plain \cup {Missing}
\* passwords a client tries at login and as passwordCurrent
TriedPasswords == (PlainInputs \ {"short"}) \cup {LongPasswordTwin}
\* password and passwordConfirm: equal, too short, different, absent
PasswordPairs ==
    {<<p, p>> : p \in Plain} \cup {<<"password1", "password2">>}
        \cup {<<Missing, Missing>>}
UpdateBodies ==
    {[username |-> "bob"],
     [username |-> "ann", password |-> "password1"],
     [username |-> "bob", passwordResetToken |-> Sha256Hex(1),
      passwordResetExpires |-> NoDate],
     [username |-> "bob", role |-> "admin", email |-> "c@d.com",
      passwordChangedAt |-> NoDate],
     [username |-> "bob", password |-> Missing],
     [passwordConfirm |-> Missing, passwordResetToken |-> NoHash]}

SignupBodies == PasswordPairs \X SignupExtras
PasswordBodies == TriedPasswords \X PasswordPairs

\* a handler that answers before it reads its body is tried with one body
OneSignupBody == {CHOOSE b \in SignupBodies : TRUE}
OnePasswordPair == {CHOOSE b \in PasswordPairs : TRUE}
OnePasswordBody == {CHOOSE b \in PasswordBodies : TRUE}
OneUpdateBody == {CHOOSE b \in UpdateBodies : TRUE}

\* the handler's copy of the document: the fields its save() can write
ResetFields(user) ==
    [passwordResetToken |-> user.passwordResetToken,
     passwordResetExpires |-> user.passwordResetExpires]

\* a request not yet received: its copy of the document is not read yet
NoDoc == [passwordResetToken |-> NoHash, passwordResetExpires |-> NoDate]
Idle == [pc |-> "idle", user |-> 0, raw |-> 0, doc |-> NoDoc, status |-> 0]

Init ==
    /\ now = StartNow
    /\ users = <<>>
    /\ held = {}
    /\ issued = 0
    /\ last = Served("start", 0, "", NoToken, 0, 0)
    /\ procs = [p \in 1 .. MaxProcs |-> Idle]
    /\ log = NoLines

Signup ==
    \E e \in SignupEmails \cup {Missing} :
        \E b \in IF e = Missing \/ FindByEmail(e) # {}
                  THEN OneSignupBody ELSE SignupBodies :
            signupUser(e, "ann", b[1][1], b[1][2], b[2])

Login ==
    \E e \in Emails \cup {Missing}, p \in TriedPasswords : login(e, p)

ForgotPassword == \E e \in Emails, ok \in BOOLEAN : forgotPassword(e, ok)

ResetPassword ==
    \E raw \in RawTokens :
        \E pp \in IF FindByResetToken(Sha256Hex(raw), now) = {}
                   THEN OnePasswordPair ELSE PasswordPairs :
            resetPassword(raw, pp[1], pp[2])

UpdatePassword ==
    \E token \in Presented :
        \E b \in IF protect(token, now).status # 0
                  THEN OnePasswordBody ELSE PasswordBodies :
            updatePassword(token, b[1], b[2][1], b[2][2])

GetMe == \E token \in Presented : getMe(token)

UpdateMe ==
    \E token \in Presented :
        \E body \in IF protect(token, now).status # 0
                     THEN OneUpdateBody ELSE UpdateBodies :
            updateMe(token, body)

\* a request through isLoggedIn, which only passes it on
IsLoggedIn ==
    /\ \E req \in Requests, findOk \in BOOLEAN :
           last' = Served("isLoggedIn", 0, "next", req.cookie,
                          isLoggedIn(req, now, findOk).user, 0)
    /\ log' = NoLines
    /\ UNCHANGED <<now, users, held, issued, procs>>

Next ==
    \/ Signup
    \/ Login
    \/ ForgotPassword
    \/ ResetPassword
    \/ UpdatePassword
    \/ GetMe
    \/ UpdateMe
    \/ IsLoggedIn
    \/ Tick

Spec == Init /\ [][Next]_vars

----------------------------------------------------------------------------
(* exports.forgotPassword served concurrently: a request runs from one     *)
(* await to the next, and other requests run in between.  save() writes    *)
(* the fields the handler changed on its copy of the document.             *)

Proc == 1 .. MaxProcs

Step(p, name) ==
    Served("forgotPassword", 0, name, NoToken, procs[p].user, procs[p].raw)

\* await User.findOne({ email: req.body.email })
FpFind(p, email) ==
    /\ procs[p].pc = "idle"
    /\ IF FindByEmail(email) = {}
       THEN /\ procs' = [procs EXCEPT ![p].pc = "done", ![p].status = 404]
            /\ last' = Served("forgotPassword", 404,
                              "There is no user with email address.",
                              NoToken, 0, 0)
       ELSE \E u \in FindByEmail(email) :
            /\ procs' = [procs EXCEPT ![p].pc = "found", ![p].user = u,
                                      ![p].doc = ResetFields(users[u])]
            /\ last' = Served("forgotPassword", 0, "found", NoToken, u, 0)
    /\ log' = NoLines
    /\ UNCHANGED <<now, users, held, issued>>

\* user.createPasswordResetToken(), then save() is called
FpCreateToken(p) ==
    /\ procs[p].pc = "found"
    /\ issued < MaxIssued
    /\ issued' = issued + 1
    /\ procs' = [procs EXCEPT
           ![p].pc = "created", ![p].raw = issued + 1,
           ![p].doc = createPasswordResetToken(procs[p].doc, issued + 1, now)]
    /\ last' = Served("forgotPassword", 0, "created", NoToken,
                      procs[p].user, issued + 1)
    /\ log' = NoLines
    /\ UNCHANGED <<now, users, held>>

\* await user.save({ validateBeforeSave: false }) reaches the store
FpSave(p) ==
    /\ procs[p].pc = "created"
    /\ users' = [users EXCEPT
           ![procs[p].user].passwordResetToken = procs[p].doc.passwordResetToken,
           ![procs[p].user].passwordResetExpires =
               procs[p].doc.passwordResetExpires]
    /\ procs' = [procs EXCEPT ![p].pc = "saved"]
    /\ last' = Step(p, "saved")
    /\ log' = NoLines
    /\ UNCHANGED <<now, held, issued>>

\* await sendEmail(...) resolves: 200
FpEmailSent(p) ==
    /\ procs[p].pc = "saved"
    /\ procs' = [procs EXCEPT ![p].pc = "done", ![p].status = 200]
    /\ last' = Served("forgotPassword", 200, "Token sent to email!", NoToken,
                      procs[p].user, procs[p].raw)
    /\ log' = NoLines
    /\ UNCHANGED <<now, users, held, issued>>

\* await sendEmail(...) rejects: the catch block clears both fields on the
\* handler's copy and calls save()
FpEmailFailed(p) ==
    /\ procs[p].pc = "saved"
    /\ procs' = [procs EXCEPT ![p].pc = "failed",
                              ![p].doc = ClearResetFields(procs[p].doc)]
    /\ last' = Step(p, "failed")
    /\ log' = <<Line("Email sending error:", {})>>
    /\ UNCHANGED <<now, users, held, issued>>

\* the catch block's save() reaches the store, then 500
FpRollback(p) ==
    /\ procs[p].pc = "failed"
    /\ users' = [users EXCEPT
           ![procs[p].user].passwordResetToken = procs[p].doc.passwordResetToken,
           ![procs[p].user].passwordResetExpires =
               procs[p].doc.passwordResetExpires]
    /\ procs' = [procs EXCEPT ![p].pc = "done", ![p].status = 500]
    /\ last' = Served("forgotPassword", 500,
                      "There was an error sending the email. Try again later!",
                      NoToken, procs[p].user, procs[p].raw)
    /\ log' = NoLines
    /\ UNCHANGED <<now, held, issued>>

\* a registered user, no request in flight
InitConc ==
    /\ now = StartNow
    /\ users = <<NewUser("a@b.com", "ann", "password1", <<>>)>>
    /\ held = {}
    /\ issued = 0
    /\ last = Served("start", 0, "", NoToken, 0, 0)
    /\ procs = [p \in Proc |-> Idle]
    /\ log = NoLines

Find == \E p \in Proc, e \in Emails : FpFind(p, e)
CreateToken == \E p \in Proc : FpCreateToken(p)
Save == \E p \in Proc : FpSave(p)
EmailSent == \E p \in Proc : FpEmailSent(p)
EmailFailed == \E p \in Proc : FpEmailFailed(p)
Rollback == \E p \in Proc : FpRollback(p)

NextConc ==
    \/ Find
    \/ CreateToken
    \/ Save
    \/ EmailSent
    \/ EmailFailed
    \/ Rollback
    \/ ResetPassword
    \/ Tick

SpecConc == InitConc /\ [][NextConc]_vars

----------------------------------------------------------------------------
(* Bearer tokens and the last password change *)

Accepts(token) == protect(token, now).status = 0
Rejects(token) == protect(token, now).status = 401
PasswordChanged(r) ==
    r.op \in {"resetPassword", "updatePassword"} /\ r.status = 200
ChangedSeconds(u) == users[u].passwordChangedAt \div 1000

\* C1: after a successful reset-password or update-password of a user,
\* protect answers 401 to every bearer token of that user issued before the
\* change, however shortly before it.  The tokens taken are those issued in
\* a clock second before the one of the change, which are surely before it.
C1_TokensBeforeChangeRejected ==
    [][PasswordChanged(last') =>
          \A token \in held :
              (token.id = last'.user /\ token.iat < ClockSeconds(now))
                  => (protect(token, now).status = 401)']_vars

C3_WitnessRejected ==
    \E token \in held :
        /\ jwtVerify(token, now)
        /\ users[token.id].passwordChangedAt # NoDate
        /\ ChangedSeconds(token.id) > token.iat
        /\ Rejects(token)

----------------------------------------------------------------------------
(* Reset tokens *)

InvalidOrExpired == "Token is invalid or has expired"

\* some record holds the digest of raw, with an expiry
Holders(raw) ==
    {u \in UserIds : /\ users[u].passwordResetToken = <<"sha256", raw>>
                     /\ users[u].passwordResetExpires # NoDate}

\* reset-password would find a user for raw now
Usable(raw) == \E u \in Holders(raw) : now < users[u].passwordResetExpires

Reset(r) == r.op = "resetPassword"
Forgot(r) == r.op = "forgotPassword"

\* C4: a reset token is usable at most once.  A successful reset-password
\* with raw token t leaves t unusable; t becomes usable again only by a
\* forgot-password that issues it; and reset-password with an unusable t
\* answers 400 'Token is invalid or has expired' and changes nothing.
C4_ResetTokenSingleUse ==
    [][/\ \A raw \in RawTokens :
              (Reset(last') /\ last'.status = 200 /\ last'.raw = raw)
                  => ~Usable(raw)'
       /\ \A raw \in RawTokens :
              (~Usable(raw) /\ Usable(raw)' /\ now' = now)
                  => (Forgot(last') /\ last'.raw = raw)
       /\ (Reset(last') /\ ~Usable(last'.raw))
              => /\ last'.status = 400
                 /\ last'.message = InvalidOrExpired
                 /\ UNCHANGED <<users, held>>]_vars

\* the password was changed without any bearer token ever issued to a
\* client that kept it, so by reset-password, which took token 1, the only
\* one issued; the same token is then refused within its window
C4_Witness ==
    /\ Reset(last) /\ last.status = 400 /\ last.raw = 1
    /\ last.message = InvalidOrExpired
    /\ issued = 1 /\ held = {} /\ now = StartNow
    /\ users[1].passwordChangedAt # NoDate

\* C5: reset-password succeeds only if the digest of the raw token is the
\* stored passwordResetToken and now < passwordResetExpires; forgot-password
\* stores as expiry its own time plus 10 minutes; a stored token submitted
\* at or after its expiry gets 400 and nothing is changed.
C5_ResetNeedsTokenAndTime ==
    [][/\ (Reset(last') /\ last'.status = 200)
              => \E u \in Holders(last'.raw) :
                     now < users[u].passwordResetExpires
       /\ (Forgot(last') /\ last'.status = 200)
              => /\ users'[last'.user].passwordResetToken
                        = <<"sha256", last'.raw>>
                 /\ users'[last'.user].passwordResetExpires = now + 600000
       /\ (Reset(last') /\ \E u \in Holders(last'.raw) :
                                now >= users[u].passwordResetExpires)
              => /\ last'.status = 400
                 /\ UNCHANGED users]_vars

\* the stored token, submitted at the very instant of its expiry, is refused
C5_Witness ==
    /\ Reset(last) /\ last.status = 400
    /\ \E u \in Holders(last.raw) : now = users[u].passwordResetExpires

\* C6: at most one reset token is outstanding per user.  A completed
\* forgot-password leaves its own token usable by that user and no other
\* token of that user; reset-password with a usable token is not refused as
\* invalid or expired.
C6_SecondTokenReplacesFirst ==
    [][/\ \A new \in RawTokens :
              (Forgot(last') /\ last'.status = 200 /\ last'.raw = new)
                  => /\ last'.user \in Holders(new)'
                     /\ Usable(new)'
                     /\ \A raw \in RawTokens \ {new} :
                            last'.user \notin Holders(raw)'
       /\ (Reset(last') /\ Usable(last'.raw))
              => last'.message # InvalidOrExpired]_vars

\* token 1 was issued, then token 2; neither reset nor update has changed
\* the password; token 1 is refused while token 2 is usable
C6_Witness ==
    /\ Reset(last) /\ last.status = 400 /\ last.raw = 1
    /\ last.message = InvalidOrExpired
    /\ issued = 2 /\ Usable(2) /\ now = StartNow
    /\ users[1].passwordChangedAt = NoDate

C6_WitnessSecondUsed ==
    /\ Reset(last) /\ last.status = 200 /\ last.raw = 2 /\ now = StartNow

\* C9: in every persisted state of a user record, passwordResetToken and
\* passwordResetExpires are both present or both absent.
C9_ResetFieldsTogether ==
    \A u \in UserIds :
        (users[u].passwordResetToken = NoHash)
            <=> (users[u].passwordResetExpires = NoDate)

\* C10: a login with an email that matches no user and a login with an
\* existing email and a wrong password, both with email and password
\* supplied, get the same response, a 401.
C10_LoginDoesNotRevealEmail ==
    \A e1 \in Emails, e2 \in Emails, p1 \in Plain, p2 \in Plain :
        (/\ FindByEmail(e1) = {}
         /\ FindByEmail(e2) # {}
         /\ \A u \in FindByEmail(e2) : users[u].password # BcryptHash(p2))
            => /\ loginResponse(e1, p1) = loginResponse(e2, p2)
               /\ loginResponse(e1, p1).status = 401

C10_Witness ==
    /\ FindByEmail("a@b.com") # {}
    /\ FindByEmail("c@d.com") = {}
    /\ last.op = "login" /\ last.status = 401

----------------------------------------------------------------------------
(* Concurrent forgot-password requests *)

AllCompleted ==
    /\ \A p \in Proc : procs[p].pc \in {"idle", "done"}
    /\ \E p \in Proc : procs[p].pc = "done"

\* C7: once all concurrent forgot-password requests have completed, a
\* usable reset token is the most recently issued one, and the most
\* recently issued token, if its email was delivered, is usable until it
\* expires or is used.
C7_LastIssuedTokenSurvives ==
    AllCompleted =>
        /\ \A raw \in 1 .. issued : Usable(raw) => raw = issued
        /\ \A p \in Proc :
               (/\ procs[p].raw = issued
                /\ procs[p].status = 200
                /\ now < procs[p].doc.passwordResetExpires
                /\ users[procs[p].user].passwordChangedAt = NoDate)
                   => Usable(issued)

----------------------------------------------------------------------------
(* update-password *)

\* C11: update-password with a passwordCurrent that is supplied and does not
\* verify against the stored hash answers 401 with no bearer token and
\* leaves the record as it was: same password hash, same passwordChangedAt.
C11_WrongCurrentPasswordChangesNothing ==
    [][last'.op = "updatePassword" =>
          \A token \in Presented, b \in PasswordBodies :
              (/\ Accepts(token)
               /\ b[1] # Missing
               /\ users[token.id].password # BcryptHash(b[1])
               /\ updatePassword(token, b[1], b[2][1], b[2][2]))
                  => /\ last'.status = 401
                     /\ last'.token = NoToken
                     /\ held' = held
                     /\ users' = users]_vars

\* a wrong passwordCurrent was refused although the new password was valid
C11_Witness ==
    /\ last.op = "updatePassword" /\ last.status = 401
    /\ last.message = "Your current password is wrong."
    /\ last.user \in UserIds
    /\ users[last.user].password = <<"bcrypt12", "password1">>

----------------------------------------------------------------------------
(* The gates: protect and isLoggedIn *)

\* the password of the token's user was last changed in a clock second
\* after the one the token was issued in; the pre("save") hook stored the
\* time of the change less PasswordChangedSkewMs
ChangedAfterIssue(token) ==
    /\ users[token.id].passwordChangedAt # NoDate
    /\ (users[token.id].passwordChangedAt + 1000) \div 1000 > token.iat

\* the token verifies, its user exists and the password was not changed
\* after the token was issued
Authentic(token) ==
    /\ token # NoToken
    /\ token.sig = "valid" /\ now \div 1000 < token.exp
    /\ token.id \in UserIds
    /\ ~ChangedAfterIssue(token)

\* C12: protect forwards a request only if a token was found in the
\* Authorization header or the jwt cookie, it verifies, its user exists and
\* the password was not changed after the token was issued; every other
\* request gets 401 and is not forwarded.
C12_ProtectForwardsOnlyAuthentic ==
    \A req \in Requests :
        LET gate == protect(locateToken(req), now) IN
        /\ gate.status = 0 => Authentic(locateToken(req))
        /\ gate.status # 0 => (gate.status = 401 /\ gate.user = 0)

\* C12 with the freshness test the code makes (iat not before the stored
\* passwordChangedAt in whole seconds) in place of the order of the events
C12_ProtectForwardsPerStoredSeconds ==
    \A req \in Requests :
        LET token == locateToken(req)
            gate == protect(token, now) IN
        /\ gate.status = 0 <=>
               /\ token # NoToken
               /\ token.sig = "valid" /\ now \div 1000 < token.exp
               /\ token.id \in UserIds
               /\ \/ users[token.id].passwordChangedAt = NoDate
                  \/ token.iat >= ChangedSeconds(token.id)
        /\ gate.status # 0 => (gate.status = 401 /\ gate.user = 0)

\* C13: isLoggedIn never rejects: for every request it sends no response
\* and calls next exactly once, and it sets res.locals.user only when the
\* cookie's token verifies, the user exists and the password was not
\* changed after the token's iat.
C13_IsLoggedInNeverRejects ==
    \A req \in Requests, findOk \in BOOLEAN :
        LET r == isLoggedIn(req, now, findOk) IN
        /\ r.calls = <<"next">>
        /\ r.user # 0 => (r.user = req.cookie.id /\ Authentic(req.cookie))

\* C13 without the clause on the password change: one call of next and no
\* response, and a user is set only for a verified token of a stored user
C13_IsLoggedInOnlyCallsNext ==
    \A req \in Requests, findOk \in BOOLEAN :
        LET r == isLoggedIn(req, now, findOk) IN
        /\ r.calls = <<"next">>
        /\ r.user # 0 => /\ req.cookie.sig = "valid"
                         /\ now \div 1000 < req.cookie.exp
                         /\ r.user = req.cookie.id /\ r.user \in UserIds

\* C14: isLoggedIn sets the user exactly when protect accepts the same
\* request, also when the token is in the Authorization header.
C14_IsLoggedInAgreesWithProtect ==
    \A req \in Requests :
        (isLoggedIn(req, now, TRUE).user # 0)
            <=> (protect(locateToken(req), now).status = 0)

\* C14 for requests that carry no Authorization header
C14_AgreeOnCookieOnly ==
    \A req \in Requests :
        req.header = NoToken =>
            /\ (isLoggedIn(req, now, TRUE).user # 0)
                   <=> (protect(locateToken(req), now).status = 0)
            /\ isLoggedIn(req, now, TRUE).user
                   = protect(locateToken(req), now).user

----------------------------------------------------------------------------
(* login after the password was set *)

\* this step is a successful signup, reset-password or update-password that
\* set the password of user last'.user to p
PasswordSet(p) ==
    \/ /\ last'.op = "signup" /\ last'.status = 201
       /\ \E e \in SignupEmails, b \in SignupBodies :
              b[1][1] = p /\ signupUser(e, "ann", p, b[1][2], b[2])
    \/ /\ last'.op = "resetPassword" /\ last'.status = 200
       /\ \E raw \in RawTokens, pp \in PasswordPairs :
              pp[1] = p /\ resetPassword(raw, p, pp[2])
    \/ /\ last'.op = "updatePassword" /\ last'.status = 200
       /\ \E token \in Presented, b \in PasswordBodies :
              b[2][1] = p /\ updatePassword(token, b[1], p, b[2][2])

PasswordSetStep ==
    \/ last'.op = "signup" /\ last'.status = 201
    \/ last'.op \in {"resetPassword", "updatePassword"} /\ last'.status = 200

LoginStatus(email, password) == loginResponse(email, password).status
LoginGivesToken(email, password) ==
    loginResponse(email, password).token # NoToken

\* C15: login with an account's email answers 200 with a token exactly when
\* the password supplied is the one most recently set successfully by
\* signup, reset-password or update-password, and 401 for every other
\* password: a step that sets password p makes p the only password login
\* accepts, and every other step leaves the answers of login as they were.
C15_LoginOnlyWithLatestPassword ==
    [][/\ PasswordSetStep =>
              \A p \in Plain :
                  PasswordSet(p) =>
                      \A e \in Emails, q \in TriedPasswords \ {Missing} :
                          e = users'[last'.user].email =>
                              /\ (q = p) => /\ LoginStatus(e, q)' = 200
                                            /\ LoginGivesToken(e, q)'
                              /\ (q # p) => LoginStatus(e, q)' = 401
       /\ ~PasswordSetStep =>
              \A e \in Emails, q \in TriedPasswords :
                  LoginStatus(e, q)' = LoginStatus(e, q)]_vars

\* C15 for passwords bcrypt reads whole: the passwords login accepts are
\* those that agree with the latest password on its first 72 bytes
C15_LoginWithinBcryptLimit ==
    [][/\ PasswordSetStep =>
              \A p \in Plain :
                  PasswordSet(p) =>
                      \A e \in Emails, q \in TriedPasswords \ {Missing} :
                          e = users'[last'.user].email =>
                              /\ (BcryptKey(q) = BcryptKey(p))
                                     => /\ LoginStatus(e, q)' = 200
                                        /\ LoginGivesToken(e, q)'
                              /\ (BcryptKey(q) # BcryptKey(p))
                                     => LoginStatus(e, q)' = 401
       /\ ~PasswordSetStep =>
              \A e \in Emails, q \in TriedPasswords :
                  LoginStatus(e, q)' = LoginStatus(e, q)]_vars

----------------------------------------------------------------------------
(* forgot-password *)

\* C16: forgot-password with working email delivery answers 404 and changes
\* no record when the email matches no user; for a known email it answers
\* 200, whatever reset token the record held, and leaves stored the digest
\* of the raw token with an expiry strictly in the future.
C16_ForgotPasswordStoresDigest ==
    [][last'.op = "forgotPassword" =>
          \A e \in Emails :
              forgotPassword(e, TRUE) =>
                  IF FindByEmail(e) = {}
                  THEN last'.status = 404 /\ users' = users
                  ELSE /\ last'.status = 200
                       /\ last'.raw \in 1 .. MaxIssued
                       /\ \A u \in FindByEmail(e) :
                              /\ users'[u].passwordResetToken
                                     = <<"sha256", last'.raw>>
                              /\ users'[u].passwordResetExpires > now'
                              /\ \A v \in UserIds \ {u} :
                                     users'[v] = users[v]]_vars

\* a second token was stored over whatever the first request had left
C16_Witness ==
    /\ Forgot(last) /\ last.status = 200 /\ last.raw = 2
    /\ users[last.user].passwordResetToken = <<"sha256", 2>>
    /\ users[last.user].passwordResetExpires > now
    /\ now > StartNow

----------------------------------------------------------------------------
(* exports.signupUser served concurrently: a request runs up to the await  *)
(* of User.findOne and then from there to its response.                    *)

DuplicateKey == "E11000 duplicate key error"
SuIdle == [pc |-> "idle", email |-> Missing, status |-> 0, message |-> ""]

\* const { email } = req.body ... await User.findOne({ email })
SuFind(p, email) ==
    /\ procs[p].pc = "idle"
    /\ IF email = Missing
       THEN /\ procs' = [procs EXCEPT ![p] =
                   [pc |-> "done", email |-> email, status |-> 400,
                    message |-> "Email is required"]]
            /\ last' = Served("signup", 400, "Email is required", NoToken,
                              0, 0)
       ELSE IF FindByEmail(email) # {}
       THEN /\ procs' = [procs EXCEPT ![p] =
                   [pc |-> "done", email |-> email, status |-> 400,
                    message |-> "User with this email already exists"]]
            /\ last' = Served("signup", 400,
                              "User with this email already exists", NoToken,
                              0, 0)
       ELSE /\ procs' = [procs EXCEPT ![p] =
                   [pc |-> "checked", email |-> email, status |-> 0,
                    message |-> ""]]
            /\ last' = Served("signup", 0, "checked", NoToken, 0, 0)
    /\ log' = NoLines
    /\ UNCHANGED <<now, users, held, issued>>

\* await User.create({ ...req.body }), then createSendToken or the catch
SuCreate(p, password, passwordConfirm, extra) ==
    /\ procs[p].pc = "checked"
    /\ IF ~PasswordValid(password, passwordConfirm)
       THEN /\ procs' = [procs EXCEPT ![p].pc = "done", ![p].status = 400,
                   ![p].message = ValidationMessage(password, passwordConfirm)]
            /\ last' = Served("signup", 400,
                              ValidationMessage(password, passwordConfirm),
                              NoToken, 0, 0)
            /\ UNCHANGED <<users, held>>
       ELSE IF ~UniqueEmail(procs[p].email)
       THEN /\ procs' = [procs EXCEPT ![p].pc = "done", ![p].status = 400,
                                      ![p].message = DuplicateKey]
            /\ last' = Served("signup", 400, DuplicateKey, NoToken, 0, 0)
            /\ UNCHANGED <<users, held>>
       ELSE /\ users' = Append(users, NewUser(procs[p].email, "ann",
                                              password, extra))
            /\ procs' = [procs EXCEPT ![p].pc = "done", ![p].status = 201,
                                      ![p].message = "success"]
            /\ last' = Served("signup", 201, "success",
                              signToken(Len(users) + 1, now),
                              Len(users) + 1, 0)
            /\ held' \in KeepOrDrop(signToken(Len(users) + 1, now))
    /\ log' = IF ~PasswordValid(password, passwordConfirm)
              THEN <<Line("User signup error:",
                          RejectedValues(password, passwordConfirm))>>
              ELSE IF ~UniqueEmail(procs[p].email)
              THEN <<Line("User signup error:", {})>>
              ELSE NoLines
    /\ UNCHANGED <<now, issued>>

InitSignup ==
    /\ now = StartNow
    /\ users = <<>>
    /\ held = {}
    /\ issued = 0
    /\ last = Served("start", 0, "", NoToken, 0, 0)
    /\ procs = [p \in Proc |-> SuIdle]
    /\ log = NoLines

SignupFind == \E p \in Proc, e \in Emails \cup {Missing} : SuFind(p, e)
SignupCreate ==
    \E p \in Proc, b \in SignupBodies : SuCreate(p, b[1][1], b[1][2], b[2])

NextSignup ==
    \/ SignupFind
    \/ SignupCreate

SpecSignup == InitSignup /\ [][NextSignup]_vars

\* C17: no two user records share an email.  A signup whose email exists
\* gets 400 and creates no record, whether it sees the record at its
\* findOne or, having passed findOne before the other signup created its
\* record, only at its create.
C17_EmailsStayUnique ==
    [][/\ \A u \in DOMAIN users', v \in DOMAIN users' :
              users'[u].email = users'[v].email => u = v
       /\ \A p \in Proc :
              (/\ procs[p].pc # "done" /\ procs'[p].pc = "done"
               /\ FindByEmail(procs'[p].email) # {})
                  => (procs'[p].status = 400 /\ users' = users)]_vars

\* two signups with one email both passed findOne; one created the record
\* and the other was refused at its create
C17_Witness ==
    \E p \in Proc, q \in Proc :
        /\ procs[p].status = 201
        /\ procs[q].status = 400 /\ procs[q].message = DuplicateKey
        /\ procs[p].email = procs[q].email
        /\ Len(users) = 1

----------------------------------------------------------------------------
(* The console *)

\* C18: nothing the auth handlers write to the console is a secret: no
\* line carries a raw reset token that forgot-password issued and no line
\* carries a plaintext password a client submitted.
C18_NoSecretInLog ==
    \A i \in DOMAIN log :
        /\ log[i][1] = "Attempting to reset password with token:"
               => log[i][2] \notin 1 .. issued
        /\ log[i][1] \in {"User signup error:", "Reset password error:"}
               => log[i][2] = {}

\* C18 for the raw reset token alone
C18_NoResetTokenInLog ==
    \A i \in DOMAIN log :
        log[i][1] = "Attempting to reset password with token:"
            => log[i][2] \notin 1 .. issued

----------------------------------------------------------------------------
(* updateMe *)

ProtectedFields ==
    {"password", "passwordChangedAt", "passwordResetToken",
     "passwordResetExpires", "role", "email"}

\* C19 as stated: updateMe leaves password, passwordChangedAt,
\* passwordResetToken, passwordResetExpires, role and email of every record
\* unchanged, and an authenticated request whose body contains password or
\* passwordConfirm gets 400 and updates nothing.
C19_UpdateMeRejectsPasswordKeys ==
    [][last'.op = "updateMe" =>
          \A token \in Presented, body \in UpdateBodies :
              updateMe(token, body) =>
                  /\ \A u \in UserIds, k \in ProtectedFields :
                         users'[u][k] = users[u][k]
                  /\ (/\ Accepts(token)
                      /\ \/ "password" \in DOMAIN body
                         \/ "passwordConfirm" \in DOMAIN body)
                         => (last'.status = 400 /\ users' = users)]_vars

\* C19 amended: the same frame, and an authenticated request whose body has
\* a non-empty password or passwordConfirm gets 400 and updates nothing;
\* a body in which they are empty is served like one without them.
C19_UpdateMeRejectsPasswordValues ==
    [][last'.op = "updateMe" =>
          \A token \in Presented, body \in UpdateBodies :
              updateMe(token, body) =>
                  /\ \A u \in UserIds, k \in ProtectedFields :
                         users'[u][k] = users[u][k]
                  /\ (/\ Accepts(token)
                      /\ \/ ("password" \in DOMAIN body
                              /\ body["password"] # "")
                         \/ ("passwordConfirm" \in DOMAIN body
                              /\ body["passwordConfirm"] # ""))
                         => (last'.status = 400 /\ users' = users)
                  /\ (/\ Accepts(token)
                      /\ "password" \in DOMAIN body => body["password"] = ""
                      /\ "passwordConfirm" \in DOMAIN body
                             => body["passwordConfirm"] = "")
                         => last'.status = 200]_vars

\* updateMe renamed the user while a reset token was pending, and the
\* token and its expiry are as forgot-password stored them
C19_Witness ==
    /\ last.op = "updateMe" /\ last.status = 200
    /\ users[last.user].username = "bob"
    /\ users[last.user].passwordResetToken = <<"sha256", 1>>
    /\ users[last.user].passwordResetExpires = StartNow + 600000
    /\ users[last.user].role = "customer"

----------------------------------------------------------------------------
(* The token a password change returns *)

\* the token was issued in the clock second of the latest password change
\* of its user
IssuedAtLatestChange(token) ==
    /\ token.id \in UserIds
    /\ users[token.id].passwordChangedAt # NoDate
    /\ token.iat = (users[token.id].passwordChangedAt + 1000) \div 1000

\* C20: the bearer token a successful update-password or reset-password
\* returns is accepted by protect at once, although it is issued in the
\* second of the change, and a token issued in the second of the user's
\* latest password change is accepted for as long as it verifies.
C20_FreshTokenAccepted ==
    [][/\ PasswordChanged(last') =>
              /\ last'.token # NoToken
              /\ \A token \in {last'.token} :
                     /\ IssuedAtLatestChange(token)'
                     /\ Accepts(token)'
       /\ \A token \in held' :
              (jwtVerify(token, now)' /\ IssuedAtLatestChange(token)')
                  => Accepts(token)']_vars

\* the client kept the token of its password change and used it in a later
\* second, before any further change
C20_Witness ==
    \E token \in held :
        /\ IssuedAtLatestChange(token)
        /\ now \div 1000 > token.iat
        /\ last.op = "getMe" /\ last.status = 200 /\ last.user = token.id

----------------------------------------------------------------------------
(* The stored password and the responses *)

\* C21: the stored password of every record is the digest of a plaintext,
\* never a plaintext and never the digest of a digest: a successful signup,
\* reset-password or update-password with password p stores hash(p), and
\* no other step (forgot-password and its rollback, updateMe, a refused
\* request) changes the stored password of any record.
C21_StoredPasswordIsDigest ==
    [][/\ \A u \in DOMAIN users' :
              \E p \in Plain : users'[u].password = BcryptHash(p)
       /\ PasswordSetStep =>
              \A p \in Plain :
                  PasswordSet(p) =>
                      users'[last'.user].password = BcryptHash(p)
       /\ ~PasswordSetStep =>
              \A u \in UserIds : users'[u].password = users[u].password]_vars

\* the password was set by reset-password or update-password and a later
\* forgot-password, whose email failed, saved the record twice
C21_Witness ==
    /\ Forgot(last) /\ last.status = 500
    /\ users[last.user].passwordChangedAt # NoDate
    /\ users[last.user].password = BcryptHash(LongPassword)

\* C22: the user object in the response of signup, login, reset-password,
\* update-password, getMe and updateMe never carries the password field.
C22_NoPasswordInResponse ==
    "password" \notin DOMAIN ResponseUser

\* login read the document with its password and answered with the user
C22_Witness ==
    /\ last.op = "login" /\ last.status = 200
    /\ "email" \in DOMAIN ResponseUser
    /\ users[last.user].password = BcryptHash("password1")

----------------------------------------------------------------------------
(* Reset tokens that expired or met a rejected password; forgot-password's *)
(* frame                                                                   *)

\* users whose stored reset token is the digest of raw and has expired
ExpiredHolders(raw) ==
    {u \in Holders(raw) : users[u].passwordResetExpires <= now}

\* C23 as stated: when the pending reset token of a user has expired, the
\* next failed reset-password with it leaves passwordResetToken and
\* passwordResetExpires of the record cleared.
C23_ExpiredTokenClearedOnFailure ==
    [][\A raw \in RawTokens :
          (Reset(last') /\ last'.raw = raw /\ last'.status = 400)
              => \A u \in ExpiredHolders(raw) :
                     /\ users'[u].passwordResetToken = NoHash
                     /\ users'[u].passwordResetExpires = NoDate]_vars

\* C23 amended: reset-password with a stored token that has expired is
\* refused with 400 and writes nothing: the record keeps both reset fields
\* as they were, and the token stays unusable.
C23_ExpiredTokenStaysStored ==
    [][\A raw \in RawTokens :
          (Reset(last') /\ last'.raw = raw /\ ExpiredHolders(raw) # {})
              => /\ last'.status = 400
                 /\ last'.message = InvalidOrExpired
                 /\ users' = users
                 /\ ~Usable(raw)']_vars

\* the expired token was refused and is still in the record
C23_Witness ==
    /\ Reset(last) /\ last.status = 400
    /\ \E u \in ExpiredHolders(last.raw) :
           /\ users[u].passwordResetToken = <<"sha256", last.raw>>
           /\ users[u].passwordResetExpires < now

\* C24: reset-password with a usable token and a new password that fails
\* validation (absent, shorter than 8 characters, or passwordConfirm
\* different) answers 400 and persists nothing, and the token stays usable:
\* reset-password with a usable token and a valid password answers 200.
C24_RejectedPasswordKeepsToken ==
    [][last'.op = "resetPassword" =>
          \A raw \in RawTokens, pp \in PasswordPairs :
              (Usable(raw) /\ resetPassword(raw, pp[1], pp[2]))
                  => IF pp[1] = "" \/ Len(pp[1]) < 8 \/ pp[2] # pp[1]
                     THEN /\ last'.status = 400
                          /\ last'.token = NoToken
                          /\ users' = users
                          /\ held' = held
                          /\ Usable(raw)'
                     ELSE last'.status = 200]_vars

\* a mismatched passwordConfirm was refused and the token is still usable
C24_Witness ==
    /\ Reset(last) /\ last.status = 400
    /\ last.message = "Passwords are not the same"
    /\ Usable(last.raw)
    /\ last.raw \in 1 .. issued

\* C25: forgot-password, whether its email is delivered or not, changes
\* only passwordResetToken and passwordResetExpires of the records: every
\* bearer token protect accepted before the call is accepted after it, and
\* login answers as before, so with the current password it succeeds.
C25_ForgotPasswordFrame ==
    [][Forgot(last') =>
          /\ DOMAIN users' = DOMAIN users
          /\ \A u \in UserIds :
                 \A k \in DOMAIN users[u] :
                     k \notin {"passwordResetToken", "passwordResetExpires"}
                         => users'[u][k] = users[u][k]
          /\ \A token \in Presented : Accepts(token) => Accepts(token)'
          /\ \A e \in Emails, q \in TriedPasswords :
                 LoginStatus(e, q)' = LoginStatus(e, q)
          /\ \A u \in UserIds :
                 \E q \in Plain : LoginStatus(users[u].email, q)' = 200]_vars

\* forgot-password's email failed for a user who had changed the password
\* and holds a bearer token that protect accepts
C25_Witness ==
    /\ Forgot(last) /\ last.status = 500
    /\ users[last.user].passwordChangedAt # NoDate
    /\ \E token \in held : token.id = last.user /\ Accepts(token)

====
